---- MODULE Spec2Model ----
(***************************************************************************)
(* pxconvert: the two host-automation scripts convert_img.js (one file)    *)
(* and convert_imgs.js (every entry of a folder).  A script run is a       *)
(* sequence of host calls (getFiles, open, convertProfile, saveAs, close); *)
(* an exception thrown by a host call is not caught by either script and   *)
(* ends the run.  Strings are sequences of one-character strings.          *)
(***************************************************************************)
EXTENDS Integers, Sequences, FiniteSets, TLC

\* ---------------------------------------------------------------- bounds
\* Most files in the source folder (the TIFF sub-folder not counted).
MaxFiles == 3
\* Most invocations of convert_img against the same host.
MaxRuns == 2
\* Longest document name the filename derivation is applied to.
MaxNameLen == 3

\* ---------------------------------------------------------------- strings
\* Characters of the names the derivation is applied to: a letter that is no
\* hex digit, the two separators, the escape character and three hex digits.
Alphabet == {"x", ".", "/", "%", "2", "E", "F"}

\* Value of a hex digit (the hex digits of Alphabet).
HexVal == ("2" :> 2) @@ ("E" :> 14) @@ ("F" :> 15)

\* Character of a code unit below 128 ("dq" stands for U+0022).
CharOf == (34 :> "dq") @@ (46 :> ".") @@ (47 :> "/")

\* Code units decodeURI leaves escaped: ; / ? : @ & = + $ , #
ReservedCodes == {59, 47, 63, 58, 64, 38, 61, 43, 36, 44, 35}

URIError == [ok |-> FALSE, str |-> <<>>]

\* decodeURI(s).  "%XX" of a code below 128 becomes that character unless it is
\* reserved, and then the escape stays as written; a "%" not followed by two hex
\* digits throws URIError.  A code of 128 or more opens a multi-byte sequence
\* whose continuation bytes are %80..%BF: they need a hex digit 8..B, which is
\* not in Alphabet, so every such sequence here is malformed and throws.
RECURSIVE decodeURI(_)
decodeURI(s) ==
  IF s = <<>> THEN [ok |-> TRUE, str |-> <<>>]
  ELSE IF s[1] # "%"
    THEN LET r == decodeURI(Tail(s))
         IN IF r.ok THEN [ok |-> TRUE, str |-> <<s[1]>> \o r.str] ELSE URIError
  ELSE IF Len(s) < 3 \/ s[2] \notin DOMAIN HexVal \/ s[3] \notin DOMAIN HexVal
    THEN URIError
  ELSE LET b == 16 * HexVal[s[2]] + HexVal[s[3]]
           r == decodeURI(SubSeq(s, 4, Len(s)))
       IN IF b >= 128 \/ ~r.ok THEN URIError
          ELSE IF b \in ReservedCodes
            THEN [ok |-> TRUE, str |-> <<"%", s[2], s[3]>> \o r.str]
          ELSE [ok |-> TRUE, str |-> <<CharOf[b]>> \o r.str]

\* String.prototype.split with a one-character separator: the sequence of the
\* pieces between separators, empty pieces included; never empty.
RECURSIVE split(_, _)
split(s, sep) ==
  IF \A k \in 1..Len(s) : s[k] # sep THEN <<s>>
  ELSE LET k == CHOOSE k \in 1..Len(s) :
                  s[k] = sep /\ \A j \in 1..(k - 1) : s[j] # sep
       IN <<SubSeq(s, 1, k - 1)>> \o split(SubSeq(s, k + 1, Len(s)), sep)

\* Array.prototype.pop: the last element.
pop(a) == a[Len(a)]

TifExt == <<".", "t", "i", "f">>

\* A derivation that keeps the last component of split('.') instead of the first.
baseNameOf_lastPart(docName) == pop(split(pop(split(docName, "/")), "."))

\* var baseName = docName.split('/').pop().split('.')[0];
baseNameOf(docName) == split(pop(split(docName, "/")), ".")[1]

\* ---------------------------------------------------------------- paths
Slash == <<"/">>

\* What File(path) and Folder(path) refer to: repeated separators count once
\* and a trailing separator is dropped.
RECURSIVE File(_)
File(s) ==
  IF Len(s) <= 1 THEN s
  ELSE IF s[1] = "/" /\ s[2] = "/" THEN File(Tail(s))
  ELSE IF Len(s) = 2 /\ s[2] = "/" THEN <<s[1]>>
  ELSE <<s[1]>> \o File(Tail(s))

\* The name of a file (File.name, Document.name): its last path segment.
NameOf(p) == pop(split(p, "/"))

\* The folder a path lies in (<<>> for a path of one segment).
ParentOf(p) ==
  LET n == Len(p) - Len(NameOf(p)) - 1
  IN IF n <= 0 THEN <<>> ELSE SubSeq(p, 1, n)

\* ---------------------------------------------------------------- host
\* File contents: a camera RAW file, TIFFs with and without an embedded
\* profile, and a file that is no image.
RawA == [fmt |-> "raw", pix |-> "A", profile |-> "camera"]
RawB == [fmt |-> "raw", pix |-> "B", profile |-> "camera"]
TifB == [fmt |-> "tif", pix |-> "B", profile |-> "sRGB"]
TifN == [fmt |-> "tif", pix |-> "A", profile |-> "none"]
Junk == [fmt |-> "junk", pix |-> "", profile |-> ""]

\* new CameraRAWOpenOptions(): colorSpace = SRGB, bitsPerChannel = SIXTEEN.
openOptions == [colorSpace |-> "sRGB", bitsPerChannel |-> "SIXTEEN"]

\* new TiffSaveOptions(): embedColorProfile = true, imageCompression = TIFFLZW.
tiffSaveOptions == [embedColorProfile |-> TRUE, imageCompression |-> "TIFFLZW"]

\* The profile convertProfile converts to.
sRGBProfile == "sRGB"

\* SaveOptions.DONOTSAVECHANGES, the argument of both scripts' close.
DONOTSAVECHANGES == "DONOTSAVECHANGES"

NoDoc == [id |-> 0, name |-> <<>>, path |-> <<>>, pix |-> "", profile |-> ""]

\* open(fileRef, openOptions) succeeds on an existing image file: not on a
\* folder, a missing file or a file that is no image.
CanOpen(fsys, p) == p \in DOMAIN fsys /\ fsys[p].fmt \in {"raw", "tif"}

\* The document open returns.  The camera RAW options apply to RAW files only:
\* a RAW file is rendered into openOptions.colorSpace, any other image keeps
\* the profile it embeds (none when it embeds none).
OpenedDoc(fsys, p, id, opts) ==
  [id |-> id, name |-> NameOf(p), path |-> p, pix |-> fsys[p].pix,
   profile |-> IF fsys[p].fmt = "raw" THEN opts.colorSpace ELSE fsys[p].profile]

\* doc.convertProfile(...) needs a source profile to convert from.
CanConvert(d) == d.profile # "none"

\* The file doc.saveAs(file, tiffSaveOptions, true) writes.
TiffOf(d, opts) ==
  [fmt |-> "tif", pix |-> d.pix,
   profile |-> IF opts.embedColorProfile THEN d.profile ELSE "none"]

\* saveAs writes into an existing folder only; it creates none.
CanSave(dirset, target) == ParentOf(target) \in dirset

\* A saveAs that leaves a file already at the target in place.
SaveEffect_keepExisting(fsys, target, d, opts) ==
  fsys @@ (target :> TiffOf(d, opts))

\* The file system after saveAs(target): the target holds the new file alone,
\* whatever it held before (asCopy = true, no prompt).
SaveEffect(fsys, target, d, opts) ==
  (target :> TiffOf(d, opts)) @@ fsys

\* A close that saves the document back to its own file whatever the option.
CloseEffect_saveChanges(fsys, d, saveOption) ==
  (d.path :> [fmt |-> fsys[d.path].fmt, pix |-> d.pix, profile |-> d.profile]) @@ fsys

\* The file system after doc.close(saveOption).
CloseEffect(fsys, d, saveOption) ==
  IF saveOption = DONOTSAVECHANGES THEN fsys
  ELSE (d.path :> [fmt |-> fsys[d.path].fmt, pix |-> d.pix, profile |-> d.profile]) @@ fsys

\* A close that leaves the document open.
CloseDoc_leak(docs, d) == docs

\* The open documents after doc.close().
CloseDoc(docs, d) == docs \ {d.id}

\* ---------------------------------------------------------------- state
VARIABLES
  mode,          \* the script run against the host: "img" or "imgs"
  pc,            \* where the running script stands
  runs,          \* invocations so far
  fs,            \* host file system: path -> contents
  dirs,          \* host file system: the folders that exist
  openDocs,      \* ids of the documents open in the host
  nDocs,         \* documents opened so far (the next id is nDocs + 1)
  err,           \* the exception that ended the run, "" when none
  sourceDir,     \* convert_imgs: arguments[0]
  tiffSubFolder, \* convert_imgs: srcFolderStr + "/TIFF/"
  fileList,      \* convert_imgs: Folder(srcFolderStr).getFiles()
  i,             \* convert_imgs: the loop index (0-based, as in the source)
  doc,           \* the document the script holds
  docName,       \* convert_imgs: decodeURI(doc.name)
  baseName,      \* convert_imgs: the derived base name
  outFile,       \* convert_imgs: the File saveAs writes
  infileRef,     \* convert_img: File(inFile)
  outfileRef,    \* convert_img: File(outFile)
  calls,         \* the host calls of this run, in order
  fs0,           \* the file system when this run started
  prev           \* the run before this one: its arguments, outcome, file system

vars == <<mode, pc, runs, fs, dirs, openDocs, nDocs, err, sourceDir, tiffSubFolder,
          fileList, i, doc, docName, baseName, outFile, infileRef, outfileRef,
          calls, fs0, prev>>

host == <<fs, dirs, openDocs, nDocs>>
imgsLocals == <<sourceDir, tiffSubFolder, fileList, i, docName, baseName, outFile>>
imgLocals == <<infileRef, outfileRef>>

\* ---------------------------------------------------------------- inputs
\* The source folder of a batch run and the strings a caller may name it by.
SrcRoot == <<"s">>
SrcDirs == {<<"s">>, <<"s", "/">>}
TiffRoot == <<"s", "/", "T", "I", "F", "F">>

\* File names of the source folder: two that share a base name, one without a
\* dot, one with an escaped dot and one with a malformed escape.
NamePool == {<<"x", ".", "2">>, <<"x", ".", "E">>, <<"F">>,
             <<"%", "2", "E", "x">>, <<"x", "%">>}
BatchContents == {RawA, TifN, Junk}

\* Paths and contents of single-file runs; the folder q does not exist.
ImgPaths == {<<"s", "/", "x">>, <<"s", "/", "o">>}
ImgArgs == ImgPaths \cup {<<"q", "/", "o">>}
ImgContents == {RawA, RawB, TifB, TifN, Junk}

\* The file systems holding files for at most n of the paths.
FileSystems(paths, contents, n) ==
  UNION {[D -> contents] : D \in {S \in SUBSET paths : Cardinality(S) <= n}}

NoRun == [ok |-> FALSE, in |-> <<>>, out |-> <<>>, fs |-> <<>>]

InitCommon ==
  /\ pc = "idle" /\ runs = 0 /\ openDocs = {} /\ nDocs = 0 /\ err = ""
  /\ sourceDir = <<>> /\ tiffSubFolder = <<>> /\ fileList = <<>> /\ i = 0
  /\ doc = NoDoc /\ docName = <<>> /\ baseName = <<>> /\ outFile = <<>>
  /\ infileRef = <<>> /\ outfileRef = <<>>
  /\ calls = <<>> /\ fs0 = fs /\ prev = NoRun

\* A folder of at most MaxFiles files, with or without its TIFF sub-folder.
InitImgs ==
  /\ mode = "imgs"
  /\ fs \in FileSystems({SrcRoot \o Slash \o n : n \in NamePool}, BatchContents, MaxFiles)
  /\ dirs \in {{SrcRoot}, {SrcRoot, TiffRoot}}
  /\ InitCommon

InitImg ==
  /\ mode = "img"
  /\ fs \in FileSystems(ImgPaths, ImgContents, Cardinality(ImgPaths))
  /\ dirs = {SrcRoot}
  /\ InitCommon

Init == InitImgs \/ InitImg

\* ---------------------------------------------------------------- steps
Call(op, job, ok, path) == [op |-> op, job |-> job, ok |-> ok, path |-> path]

\* An exception handled by going on to the close of the job.
Throw_toClose(kind) == pc' = "close" /\ err' = kind

\* An uncaught exception ends the script: neither script has a try block.
Throw(kind) == pc' = "aborted" /\ err' = kind

\* Folder(dir).getFiles(): the files and folders directly in dir.
getFiles(dir) == {p \in DOMAIN fs \cup dirs : ParentOf(p) = File(dir)}

\* The orders a listing of the entries can come in.
Listings(entries) ==
  {l \in [1..Cardinality(entries) -> entries] :
     \A a, b \in 1..Cardinality(entries) : a # b => l[a] # l[b]}

\* The loop variable's first value: for (var i = 1; ...
FirstIndex == 1

\* convert_imgs(arguments[0]) up to the loop: lines 14 to 20.
imgs_Start ==
  /\ mode = "imgs" /\ pc = "idle"
  /\ \E dir \in SrcDirs : \E list \in Listings(getFiles(dir)) :
       /\ sourceDir' = dir
       /\ tiffSubFolder' = dir \o <<"/", "T", "I", "F", "F", "/">>
       /\ fileList' = list
  /\ i' = FirstIndex
  /\ pc' = "test" /\ runs' = runs + 1 /\ calls' = <<>> /\ fs0' = fs
  /\ UNCHANGED <<mode, host, err, doc, docName, baseName, outFile, imgLocals, prev>>

\* i < fileList.length
imgs_Test ==
  /\ mode = "imgs" /\ pc = "test"
  /\ pc' = IF i < Len(fileList) THEN "open" ELSE "done"
  /\ UNCHANGED <<mode, runs, host, err, imgsLocals, doc, imgLocals, calls, fs0, prev>>

\* var fileRef = File(fileList[i]); var doc = open(fileRef, openOptions);
imgs_Open ==
  /\ mode = "imgs" /\ pc = "open"
  /\ LET fileRef == File(fileList[i + 1])
     IN IF CanOpen(fs, fileRef)
        THEN /\ doc' = OpenedDoc(fs, fileRef, nDocs + 1, openOptions)
             /\ openDocs' = openDocs \cup {nDocs + 1}
             /\ nDocs' = nDocs + 1
             /\ calls' = Append(calls, Call("open", i, TRUE, fileRef))
             /\ pc' = "name"
             /\ UNCHANGED err
        ELSE /\ Throw("DecodeError")
             /\ calls' = Append(calls, Call("open", i, FALSE, fileRef))
             /\ UNCHANGED <<doc, openDocs, nDocs>>
  /\ UNCHANGED <<mode, runs, fs, dirs, imgsLocals, imgLocals, fs0, prev>>

\* docName, baseName and outFile: lines 24 to 28.
imgs_Name ==
  /\ mode = "imgs" /\ pc = "name"
  /\ LET r == decodeURI(doc.name)
     IN IF r.ok
        THEN /\ docName' = r.str
             /\ baseName' = baseNameOf(r.str)
             /\ outFile' = File(tiffSubFolder \o Slash \o baseNameOf(r.str) \o TifExt)
             /\ pc' = "convert"
             /\ UNCHANGED err
        ELSE /\ Throw("URIError")
             /\ UNCHANGED <<docName, baseName, outFile>>
  /\ UNCHANGED <<mode, runs, host, sourceDir, tiffSubFolder, fileList, i, doc,
                 imgLocals, calls, fs0, prev>>

\* doc.convertProfile('sRGB IEC61966-2.1', Intent.RELATIVECOLORIMETRIC, true, true);
imgs_Convert ==
  /\ mode = "imgs" /\ pc = "convert"
  /\ calls' = Append(calls, Call("convertProfile", i, CanConvert(doc), doc.path))
  /\ IF CanConvert(doc)
     THEN doc' = [doc EXCEPT !.profile = sRGBProfile] /\ pc' = "save" /\ UNCHANGED err
     ELSE Throw("ColorConversionError") /\ UNCHANGED doc
  /\ UNCHANGED <<mode, runs, host, imgsLocals, imgLocals, fs0, prev>>

\* doc.saveAs(outFile, tiffSaveOptions, true);
imgs_Save ==
  /\ mode = "imgs" /\ pc = "save"
  /\ calls' = Append(calls, Call("saveAs", i, CanSave(dirs, outFile), outFile))
  /\ IF CanSave(dirs, outFile)
     THEN fs' = SaveEffect(fs, outFile, doc, tiffSaveOptions) /\ pc' = "close"
          /\ UNCHANGED err
     ELSE Throw("WriteError") /\ UNCHANGED fs
  /\ UNCHANGED <<mode, runs, dirs, openDocs, nDocs, imgsLocals, doc, imgLocals, fs0, prev>>

\* doc.close(SaveOptions.DONOTSAVECHANGES); and the loop's i++.
imgs_Close ==
  /\ mode = "imgs" /\ pc = "close"
  /\ fs' = CloseEffect(fs, doc, DONOTSAVECHANGES)
  /\ openDocs' = CloseDoc(openDocs, doc)
  /\ calls' = Append(calls, Call("close", i, TRUE, doc.path))
  /\ i' = i + 1
  /\ pc' = "test"
  /\ UNCHANGED <<mode, runs, dirs, nDocs, err, sourceDir, tiffSubFolder, fileList,
                 doc, docName, baseName, outFile, imgLocals, fs0, prev>>

\* convert_img(arguments[0], arguments[1]) up to the open: lines 13 to 16.  The
\* host outlives a run, so a caller may run the script again.
img_Start ==
  /\ mode = "img" /\ pc \in {"idle", "done", "aborted"} /\ runs < MaxRuns
  /\ \E inFile \in ImgArgs, outFileArg \in ImgArgs :
       /\ infileRef' = File(inFile)
       /\ outfileRef' = File(outFileArg)
  /\ prev' = IF runs = 0 THEN NoRun
             ELSE [ok |-> pc = "done", in |-> infileRef, out |-> outfileRef, fs |-> fs]
  /\ pc' = "open" /\ runs' = runs + 1 /\ err' = "" /\ calls' = <<>> /\ fs0' = fs
  /\ UNCHANGED <<mode, host, imgsLocals, doc>>

\* var doc = open(infileRef, openOptions);
img_Open ==
  /\ mode = "img" /\ pc = "open"
  /\ IF CanOpen(fs, infileRef)
     THEN /\ doc' = OpenedDoc(fs, infileRef, nDocs + 1, openOptions)
          /\ openDocs' = openDocs \cup {nDocs + 1}
          /\ nDocs' = nDocs + 1
          /\ calls' = Append(calls, Call("open", 0, TRUE, infileRef))
          /\ pc' = "convert"
          /\ UNCHANGED err
     ELSE /\ Throw("DecodeError")
          /\ calls' = Append(calls, Call("open", 0, FALSE, infileRef))
          /\ UNCHANGED <<doc, openDocs, nDocs>>
  /\ UNCHANGED <<mode, runs, fs, dirs, imgsLocals, imgLocals, fs0, prev>>

\* doc.convertProfile('sRGB IEC61966-2.1', Intent.RELATIVECOLORIMETRIC, true, true);
img_Convert ==
  /\ mode = "img" /\ pc = "convert"
  /\ calls' = Append(calls, Call("convertProfile", 0, CanConvert(doc), doc.path))
  /\ IF CanConvert(doc)
     THEN doc' = [doc EXCEPT !.profile = sRGBProfile] /\ pc' = "save" /\ UNCHANGED err
     ELSE Throw("ColorConversionError") /\ UNCHANGED doc
  /\ UNCHANGED <<mode, runs, host, imgsLocals, imgLocals, fs0, prev>>

\* doc.saveAs(outfileRef, tiffSaveOptions, true);
img_Save ==
  /\ mode = "img" /\ pc = "save"
  /\ calls' = Append(calls, Call("saveAs", 0, CanSave(dirs, outfileRef), outfileRef))
  /\ IF CanSave(dirs, outfileRef)
     THEN fs' = SaveEffect(fs, outfileRef, doc, tiffSaveOptions) /\ pc' = "close"
          /\ UNCHANGED err
     ELSE Throw("WriteError") /\ UNCHANGED fs
  /\ UNCHANGED <<mode, runs, dirs, openDocs, nDocs, imgsLocals, doc, imgLocals, fs0, prev>>

\* doc.close(SaveOptions.DONOTSAVECHANGES);
img_Close ==
  /\ mode = "img" /\ pc = "close"
  /\ fs' = CloseEffect(fs, doc, DONOTSAVECHANGES)
  /\ openDocs' = CloseDoc(openDocs, doc)
  /\ calls' = Append(calls, Call("close", 0, TRUE, doc.path))
  /\ pc' = "done"
  /\ UNCHANGED <<mode, runs, dirs, nDocs, err, imgsLocals, doc, imgLocals, fs0, prev>>

Next ==
  \/ imgs_Start \/ imgs_Test \/ imgs_Open \/ imgs_Name
  \/ imgs_Convert \/ imgs_Save \/ imgs_Close
  \/ img_Start \/ img_Open \/ img_Convert \/ img_Save \/ img_Close

Spec == Init /\ [][Next]_vars

\* ------------------------------------------------- the filename derivation
\* Every string over Alphabet of length 1 to n.
Names(n) == UNION {[1..k -> Alphabet] : k \in 1..n}

\* A batch run standing before line 24 with a document of any name.
InitName ==
  /\ mode = "imgs" /\ pc = "name" /\ runs = 1
  /\ fs = <<>> /\ dirs = {SrcRoot} /\ openDocs = {1} /\ nDocs = 1 /\ err = ""
  /\ sourceDir = SrcRoot /\ tiffSubFolder = SrcRoot \o <<"/", "T", "I", "F", "F", "/">>
  /\ fileList = <<>> /\ i = FirstIndex
  /\ \E n \in Names(MaxNameLen) :
       doc = [id |-> 1, name |-> n, path |-> SrcRoot \o Slash \o n,
              pix |-> "A", profile |-> "sRGB"]
  /\ docName = <<>> /\ baseName = <<>> /\ outFile = <<>>
  /\ infileRef = <<>> /\ outfileRef = <<>>
  /\ calls = <<>> /\ fs0 = fs /\ prev = NoRun

NextName == imgs_Name

SpecName == InitName /\ [][NextName]_vars

\* ---------------------------------------------------------------- claims
Terminal == pc \in {"done", "aborted"}

CallsOf(op, job) == {n \in 1..Len(calls) : calls[n].op = op /\ calls[n].job = job}

\* The 0-based positions of the listing.
Positions == 0..(Len(fileList) - 1)

\* The name the claims derive from a source name: its final '/'-separated
\* segment, cut at the first '.', with ".tif" appended.
ClaimedName(n) ==
  LET slashes == {k \in 1..Len(n) : n[k] = "/"}
      from == IF slashes = {} THEN 1
              ELSE (CHOOSE k \in slashes : \A j \in slashes : j <= k) + 1
      seg == SubSeq(n, from, Len(n))
      dots == {k \in 1..Len(seg) : seg[k] = "."}
      upto == IF dots = {} THEN Len(seg)
              ELSE (CHOOSE k \in dots : \A j \in dots : k <= j) - 1
  IN SubSeq(seg, 1, upto) \o TifExt

HasPercent(n) == \E k \in 1..Len(n) : n[k] = "%"

\* C1: a batch run that ends normally has opened every entry of the listing,
\* the one at index 0 included, exactly once, and has issued a save to
\* <inputDirectory>/TIFF/<basename>.tif for it.
C1_EveryEntryConverted ==
  (mode = "imgs" /\ pc = "done") =>
    \A k \in Positions :
      /\ Cardinality(CallsOf("open", k)) = 1
      /\ \E n \in CallsOf("saveAs", k) :
           calls[n].path = TiffRoot \o Slash \o ClaimedName(NameOf(fileList[k + 1]))

\* C2 as stated: for every non-empty name the derivation yields a filename,
\* and it is the name's final segment cut at its first dot, plus ".tif".
C2_DerivedFromName ==
  (pc # "name") =>
    /\ pc = "convert"
    /\ baseName \o TifExt = ClaimedName(doc.name)

\* C2 as amended: the rule holds of decodeURI(name), and so of every name
\* without '%'; only a name with '%' can throw instead of deriving a filename.
C2_DerivedFromDecodedName ==
  /\ (pc = "convert") =>
       /\ baseName \o TifExt = ClaimedName(docName)
       /\ NameOf(outFile) = ClaimedName(docName)
       /\ ~HasPercent(doc.name) => baseName \o TifExt = ClaimedName(doc.name)
  /\ (pc = "aborted") => HasPercent(doc.name)

C2_Witness ==
  /\ pc = "convert" /\ doc.name = <<".", "x", ".">> /\ outFile = TiffRoot \o Slash \o TifExt

\* C3: after a host call fails for the entry at position k, every entry at a
\* later position is still processed.
C3_ContinuesAfterFailure ==
  (mode = "imgs" /\ Terminal) =>
    \A n \in 1..Len(calls) :
      ~calls[n].ok =>
        \A j \in Positions : j > calls[n].job => CallsOf("open", j) # {}

\* The files of the listing that are images, those that are not, and the
\* failures of kind DecodeError the run reports.
ImageEntries == {k \in Positions : CanOpen(fs0, fileList[k + 1])}
NonImageEntries ==
  {k \in Positions : fileList[k + 1] \in DOMAIN fs0 /\ ~CanOpen(fs0, fileList[k + 1])}
OutputFiles == {p \in DOMAIN fs : ParentOf(p) = TiffRoot}
DecodeErrorsReported == IF err = "DecodeError" THEN 1 ELSE 0

\* C4: a batch run ends with as many files in TIFF/ as the listing has image
\* files and as many DecodeError failures as it has non-image files.
C4_CountsMatch ==
  (mode = "imgs" /\ Terminal) =>
    /\ Cardinality(OutputFiles) = Cardinality(ImageEntries)
    /\ DecodeErrorsReported = Cardinality(NonImageEntries)

\* C5: no run ends with a document still open.
C5_OpenedIsClosed == Terminal => openDocs = {}

\* C6: whenever a batch run has issued a saveAs, the TIFF sub-folder exists,
\* and no run ends because it is missing.
C6_TiffFolderExists ==
  (mode = "imgs" /\ \E n \in 1..Len(calls) : calls[n].op = "saveAs") =>
    /\ File(tiffSubFolder) \in dirs
    /\ err # "WriteError"

\* C7: the host calls of a job come in the order open, convertProfile, saveAs,
\* close, each on the document of the call before and only after that call
\* succeeded; no job is opened twice; a failed call is the last of the run.
C7_JobOrder ==
  \A n \in 1..Len(calls) :
    LET c == calls[n]
        After(op) == /\ n > 1
                     /\ calls[n - 1].op = op /\ calls[n - 1].ok
                     /\ calls[n - 1].job = c.job
    IN /\ (c.op = "open") => \A m \in 1..(n - 1) : calls[m].job # c.job
       /\ (c.op = "convertProfile") => After("open") /\ c.path = calls[n - 1].path
       /\ (c.op = "saveAs") => After("convertProfile")
       /\ (c.op = "close") => After("saveAs") /\ c.path = calls[n - 2].path
       /\ ~c.ok => n = Len(calls) /\ pc = "aborted"

C7_Witness ==
  /\ mode = "imgs" /\ pc = "aborted" /\ Len(calls) > 4
  /\ calls[4].op = "close"
  /\ calls[Len(calls)].op = "convertProfile"

SameAsPrev == runs >= 2 /\ prev.ok /\ prev.in = infileRef /\ prev.out = outfileRef

\* C8: a run of convert_img that ends normally leaves at the output path the
\* TIFF of the input alone, whatever was there, and every other file as it
\* was; run again with the arguments of a run that ended normally, it ends
\* normally too and leaves the file system as that run left it.
C8_IdempotentOverwrite ==
  (mode = "img") =>
    /\ (pc = "done") =>
         /\ fs[outfileRef] = [fmt |-> "tif", pix |-> fs0[infileRef].pix, profile |-> "sRGB"]
         /\ \A p \in DOMAIN fs \ {outfileRef} : p \in DOMAIN fs0 /\ fs[p] = fs0[p]
    /\ SameAsPrev => /\ pc # "aborted"
                     /\ (pc = "done") => fs = prev.fs

C8_Witness ==
  /\ mode = "img" /\ pc = "done" /\ SameAsPrev
  /\ infileRef # outfileRef /\ fs[infileRef] = RawA

\* C9: in a batch run at most one document is open, none is open when the next
\* one is opened, and an open that is not the run's first call comes right
\* after the close of the job before.
C9_OneAtATime ==
  (mode = "imgs") =>
    /\ Cardinality(openDocs) <= 1
    /\ (pc = "open") => openDocs = {}
    /\ \A n \in 2..Len(calls) :
         (calls[n].op = "open") =>
           calls[n - 1].op = "close" /\ calls[n - 1].job = calls[n].job - 1

C9_Witness ==
  /\ mode = "imgs" /\ Len(calls) = 5
  /\ calls[4].op = "close" /\ calls[5].op = "open" /\ calls[5].ok
  /\ openDocs = {2}

\* A path directly under <sourceDir>/TIFF/ whose name ends in ".tif".
UnderTiff(p) ==
  LET pre == File(sourceDir) \o <<"/", "T", "I", "F", "F", "/">>
      name == SubSeq(p, Len(pre) + 1, Len(p))
  IN /\ Len(p) >= Len(pre) + Len(TifExt)
     /\ SubSeq(p, 1, Len(pre)) = pre
     /\ \A k \in 1..Len(name) : name[k] # "/"
     /\ SubSeq(name, Len(name) - Len(TifExt) + 1, Len(name)) = TifExt

\* C10: a batch run saves only to paths directly under <sourceDir>/TIFF/ named
\* *.tif, never to an entry of the listing, and leaves every file of the
\* folder as it was; a single-file run whose output path is not its input path
\* leaves the input file as it was.
C10_SourceUntouched ==
  /\ (mode = "imgs") =>
       /\ \A n \in 1..Len(calls) :
            (calls[n].op = "saveAs") =>
              /\ UnderTiff(calls[n].path)
              /\ \A k \in 1..Len(fileList) : fileList[k] # calls[n].path
       /\ \A p \in DOMAIN fs0 : p \in DOMAIN fs /\ fs[p] = fs0[p]
  /\ (mode = "img" /\ runs >= 1 /\ infileRef # outfileRef /\ infileRef \in DOMAIN fs0) =>
       /\ infileRef \in DOMAIN fs /\ fs[infileRef] = fs0[infileRef]

C10_Witness ==
  /\ mode = "imgs" /\ pc = "done"
  /\ \E n \in 1..Len(calls) : calls[n].op = "close"
  /\ sourceDir = <<"s", "/">>

====
